---- MODULE Spec2Model ----
(***************************************************************************)
(* A model of src/src/lib.rs: the per-tick decision engine of a Screeps    *)
(* colony.  One behaviour is a sequence of ticks; within a tick game_loop  *)
(* runs every owned structure and then every owned creep.  The persisted   *)
(* memory of spawns and creeps is the only state kept between ticks; the   *)
(* world (what resolves, what is adjacent, stored energy, what the engine  *)
(* answers to a creation request) is an input drawn afresh when the code   *)
(* queries it.                                                             *)
(***************************************************************************)
EXTENDS Integers, Sequences, FiniteSets, TLC

VARIABLES
    phase,       \* position of game_loop: "idle", "structures", "creeps", "done", "aborted"
    todoS,       \* structures of this tick's snapshot that run_structures has not visited
    todoC,       \* creeps of this tick's snapshot that run_creeps has not visited
    spawnMem,    \* spawn name -> raw persisted memory (a JsValue)
    creepMem,    \* creep name -> raw persisted memory (a JsValue), for every living creep
    pending,     \* creep name -> raw memory, creation requests the engine accepted this tick
    slog,        \* spawn name -> what run_spawn read and did in this tick
    clog,        \* creep name -> what run_creep read and did in this tick
    bootstraps,  \* spawn name -> how often the bootstrap arm of run_spawn ran (history, capped)
    requested,   \* spawn name -> the names of the creation requests it has issued (history)
    world        \* creep name -> what the world answers to that creep's queries in this tick

vars == <<phase, todoS, todoC, spawnMem, creepMem, pending, slog, clog, bootstraps,
          requested, world>>

---------------------------------------------------------------------------
(* Bounds of the model *)

\* run_spawn's counter is not driven beyond this value
MaxCounter == 2
\* the engine accepts no creation request once this many creeps exist
MaxCreeps == 2

(* Program constants *)

\* the energy a spawn must hold before run_spawn requests a creep
SpawnThreshold == 200
\* the largest value of the i32 counter of StructureMemory::GenericSpawner
I32Max == 2147483647

---------------------------------------------------------------------------
(* The world *)

\* the owned structures, by name
Structures == {"Spawn1", "Spawn2", "Ctrl", "Ext", "Tower"}

structure_type(s) ==
    CASE s \in {"Spawn1", "Spawn2"} -> "Spawn"
      [] s = "Ctrl" -> "Controller"
      [] s = "Ext" -> "Extension"
      [] OTHER -> "Tower"

Spawns == {s \in Structures : structure_type(s) = "Spawn"}

\* the creeps that live when the model starts
InitCreeps == {"c1"}

\* strings that parse as object ids
ObjectIds == {"s1", "s2", "k1", "k2", "p1", "r1"}

\* what spawn.store().get_used_capacity(Energy) may return
Energies == {199, 200}

\* what find(SOURCES), find(MY_CONSTRUCTION_SITES), find(MY_SPAWNS) and
\* room.controller() may return in a creep's room
SourceLists == {<<>>, <<"s1">>, <<"s2", "s1">>}
SiteLists == {<<>>, <<"k1">>, <<"k2", "k1">>}
SpawnLists == {<<>>, <<"p1">>}
ControllerOpts == {<<>>, <<"r1">>}

---------------------------------------------------------------------------
(* Typed values: the enums of lines 36-59, Result and Option *)

Idle == <<"Idle">>
Job(tag, id) == <<tag, id>>
SimpleWorker(job) == <<"SimpleWorker", job>>
GenericSpawner(n) == <<"GenericSpawner", n>>

\* the variants of SimpleJob that carry an object id
IdJobTags == {"MoveToSource", "HarvestSource", "MoveToController", "UpgradeController",
              "MoveToSpawn", "TransferToSpawn", "MoveToExtension", "TransferToExtension",
              "MoveToConstructionSite", "ConstructSite"}

Ok(v) == <<"Ok", v>>
Err == <<"Err">>
is_ok(r) == r[1] = "Ok"
unwrap_or(r, d) == IF is_ok(r) THEN r[2] ELSE d

(* Raw values: what a JsValue held in persisted memory looks like *)

Undefined == <<"undefined">>
Str(s) == <<"str", s>>
Num(n) == <<"num", n>>
Obj1(k, v) == <<"obj", k, v>>

---------------------------------------------------------------------------
(* serde_wasm_bindgen: an enum is externally tagged, a unit variant is its  *)
(* name as a string, a newtype variant is an object with one key.          *)

to_value_SimpleJob(job) ==
    IF job = Idle THEN Str("Idle") ELSE Obj1(job[1], Str(job[2]))

to_value_CreepMemory(m) == Obj1(m[1], to_value_SimpleJob(m[2]))

to_value_StructureMemory(m) == Obj1(m[1], Num(m[2]))

from_value_ObjectId(raw) ==
    IF raw[1] = "str" /\ raw[2] \in ObjectIds THEN Ok(raw[2]) ELSE Err

from_value_SimpleJob(raw) ==
    IF raw[1] = "str"
    THEN IF raw[2] = "Idle" THEN Ok(Idle) ELSE Err
    ELSE IF raw[1] = "obj" /\ raw[2] \in IdJobTags /\ is_ok(from_value_ObjectId(raw[3]))
         THEN Ok(Job(raw[2], from_value_ObjectId(raw[3])[2]))
         ELSE Err

from_value_CreepMemory(raw) ==
    IF raw[1] = "obj" /\ raw[2] = "SimpleWorker" /\ is_ok(from_value_SimpleJob(raw[3]))
    THEN Ok(SimpleWorker(from_value_SimpleJob(raw[3])[2]))
    ELSE Err

from_value_StructureMemory(raw) ==
    IF /\ raw[1] = "obj"
       /\ raw[2] = "GenericSpawner"
       /\ raw[3][1] = "num"
       /\ raw[3][2] >= -I32Max - 1
       /\ raw[3][2] <= I32Max
    THEN Ok(GenericSpawner(raw[3][2]))
    ELSE Err

---------------------------------------------------------------------------
(* The spawner: lines 76-113 *)

format_name_NoCounter(spawnname, n) == spawnname \o ".Simple"

\* format!("{}.Simple.{}", spawn.name(), n)
format_name(spawnname, n) == spawnname \o ".Simple." \o ToString(n)

\* n + 1 on an i32 (the release build wraps)
Add32(n) == IF n = I32Max THEN -I32Max - 1 ELSE n + 1

\* the creation request of spawn_simple_worker
spawn_simple_worker(name) ==
    [name |-> name,
     body |-> <<"Move", "Carry", "Work">>,
     memory |-> to_value_CreepMemory(SimpleWorker(Idle))]

\* what run_spawn does in one of its arms: the creation requests it issues
\* and the StructureMemory values it hands to set_memory, in order
SpawnNothing(branch) == [branch |-> branch, reqs |-> <<>>, writes |-> <<>>]

SpawnSteady_GreaterThan(name, n, energy) ==
    IF energy > SpawnThreshold
    THEN [branch |-> "steady",
          reqs |-> <<spawn_simple_worker(format_name(name, n))>>,
          writes |-> <<GenericSpawner(Add32(n))>>]
    ELSE SpawnNothing("steady")

\* the arm (_, Ok(GenericSpawner(n)))
SpawnSteady(name, n, energy) ==
    IF energy >= SpawnThreshold
    THEN [branch |-> "steady",
          reqs |-> <<spawn_simple_worker(format_name(name, n))>>,
          writes |-> <<GenericSpawner(Add32(n))>>]
    ELSE SpawnNothing("steady")

SpawnBootstrap_FromOne == [branch |-> "bootstrap", reqs |-> <<>>, writes |-> <<GenericSpawner(1)>>]

\* the arm ("Spawn1", Err(_))
SpawnBootstrap == [branch |-> "bootstrap", reqs |-> <<>>, writes |-> <<GenericSpawner(0)>>]

run_spawn_BootstrapThenSpawn(name, rawmem, energy) ==
    LET mem == from_value_StructureMemory(rawmem)
    IN  IF is_ok(mem) THEN SpawnSteady(name, mem[2][2], energy)
        ELSE IF name = "Spawn1"
        THEN [branch |-> "bootstrap",
              reqs |-> SpawnSteady(name, 0, energy).reqs,
              writes |-> SpawnBootstrap.writes \o SpawnSteady(name, 0, energy).writes]
        ELSE SpawnNothing("other")

run_spawn_BootstrapFirst(name, rawmem, energy) ==
    LET mem == from_value_StructureMemory(rawmem)
    IN  IF name = "Spawn1" THEN SpawnBootstrap
        ELSE IF is_ok(mem) THEN SpawnSteady(name, mem[2][2], energy)
        ELSE SpawnNothing("other")

\* the match of run_spawn on (name, from_value(memory))
run_spawn(name, rawmem, energy) ==
    LET mem == from_value_StructureMemory(rawmem)
    IN  IF is_ok(mem) THEN SpawnSteady(name, mem[2][2], energy)
        ELSE IF name = "Spawn1" THEN SpawnBootstrap
        ELSE SpawnNothing("other")

---------------------------------------------------------------------------
(* The creep job state machine: lines 123-191 *)

\* what the world answers to the queries of one creep in one tick
AllObs ==
    [resolves : BOOLEAN,          \* <id>.resolve() is Some
     near : BOOLEAN,              \* creep.pos().is_near_to(target.pos())
     free : {0, 50},              \* creep.store().get_free_capacity(Energy)
     sources : SourceLists,       \* room.find(SOURCES)
     sites : SiteLists,           \* room.find(MY_CONSTRUCTION_SITES)
     spawns : SpawnLists,         \* room.find(MY_SPAWNS)
     controller : ControllerOpts] \* room.controller()

NoObs ==
    [resolves |-> FALSE, near |-> FALSE, free |-> 0, sources |-> <<>>,
     sites |-> <<>>, spawns |-> <<>>, controller |-> <<>>]

\* the jobs run_simple_worker_with_job has an arm for
HandledTags == {"TransferToSpawn", "HarvestSource", "MoveToConstructionSite", "MoveToController"}

\* o answers exactly the queries the code makes for this job: a query the
\* code does not reach has no answer (it keeps the value it has in NoObs)
Queried(job, o) ==
    LET tag == job[1]
        readsNear == tag \in HandledTags /\ o.resolves
        readsFree == tag = "HarvestSource" /\ readsNear /\ o.near
        readsSources == tag = "TransferToSpawn" /\ readsNear /\ o.near
        readsSites == readsFree /\ o.free = 0
        readsSpawns == readsSites /\ o.sites = <<>>
        readsController == readsSpawns /\ o.spawns = <<>>
    IN  /\ tag \notin HandledTags => ~o.resolves
        /\ ~readsNear => ~o.near
        /\ ~readsFree => o.free = 0
        /\ ~readsSources => o.sources = <<>>
        /\ ~readsSites => o.sites = <<>>
        /\ ~readsSpawns => o.spawns = <<>>
        /\ ~readsController => o.controller = <<>>

Observations(job) == {o \in AllObs : Queried(job, o)}

\* what one arm does: the world actions it issues, the SimpleJob values it
\* hands to set_memory, and whether it panics (expect, unwrap, index)
Outcome(acts, writes, panic) == [acts |-> acts, writes |-> writes, panic |-> panic]

transfer(id) == <<"transfer", id>>
harvest(id) == <<"harvest", id>>
move_to(id) == <<"move_to", id>>

TransferToSpawn_MoveAndTransfer(spawn_id, o) ==
    IF ~o.resolves THEN Outcome(<<>>, <<>>, TRUE)
    ELSE IF o.near
    THEN IF o.sources = <<>>
         THEN Outcome(<<move_to(spawn_id), transfer(spawn_id)>>, <<>>, TRUE)
         ELSE Outcome(<<move_to(spawn_id), transfer(spawn_id)>>,
                      <<Job("MoveToSource", o.sources[1])>>, FALSE)
    ELSE Outcome(<<move_to(spawn_id)>>, <<>>, FALSE)

TransferToSpawn_LastSource(spawn_id, o) ==
    IF ~o.resolves THEN Outcome(<<>>, <<>>, TRUE)
    ELSE IF o.near
    THEN IF o.sources = <<>>
         THEN Outcome(<<transfer(spawn_id)>>, <<>>, TRUE)
         ELSE Outcome(<<transfer(spawn_id)>>,
                      <<Job("MoveToSource", o.sources[Len(o.sources)])>>, FALSE)
    ELSE Outcome(<<>>, <<>>, FALSE)

\* lines 134-141
TransferToSpawn(spawn_id, o) ==
    IF ~o.resolves THEN Outcome(<<>>, <<>>, TRUE)
    ELSE IF o.near
    THEN IF o.sources = <<>>
         THEN Outcome(<<transfer(spawn_id)>>, <<>>, TRUE)
         ELSE Outcome(<<transfer(spawn_id)>>, <<Job("MoveToSource", o.sources[1])>>, FALSE)
    ELSE Outcome(<<>>, <<>>, FALSE)

\* the choice of the next job of lines 149-157
NextTarget(o) ==
    IF o.sites # <<>>
    THEN Outcome(<<>>, <<Job("MoveToConstructionSite", o.sites[1])>>, FALSE)
    ELSE IF o.spawns # <<>>
    THEN Outcome(<<>>, <<Job("MoveToSpawn", o.spawns[1])>>, FALSE)
    ELSE IF o.controller = <<>>
    THEN Outcome(<<>>, <<>>, TRUE)
    ELSE Outcome(<<>>, <<Job("MoveToController", o.controller[1])>>, FALSE)

HarvestSource_WhenFull(source_id, o) ==
    IF ~o.resolves THEN Outcome(<<>>, <<>>, TRUE)
    ELSE IF o.near
    THEN IF o.free = 0
         THEN Outcome(<<harvest(source_id)>>, <<>>, FALSE)
         ELSE NextTarget(o)
    ELSE Outcome(<<>>, <<Idle>>, FALSE)

HarvestSource_MoveWhenFar(source_id, o) ==
    IF ~o.resolves THEN Outcome(<<>>, <<>>, TRUE)
    ELSE IF o.near
    THEN IF o.free > 0
         THEN Outcome(<<harvest(source_id)>>, <<>>, FALSE)
         ELSE NextTarget(o)
    ELSE Outcome(<<move_to(source_id)>>, <<>>, FALSE)

\* lines 142-162
HarvestSource(source_id, o) ==
    IF ~o.resolves THEN Outcome(<<>>, <<>>, TRUE)
    ELSE IF o.near
    THEN IF o.free > 0
         THEN Outcome(<<harvest(source_id)>>, <<>>, FALSE)
         ELSE NextTarget(o)
    ELSE Outcome(<<>>, <<Idle>>, FALSE)

\* lines 163-175
MoveToConstructionSite(construction_site_id, o) ==
    IF o.resolves
    THEN IF o.near
         THEN Outcome(<<>>, <<Job("ConstructSite", construction_site_id)>>, FALSE)
         ELSE Outcome(<<move_to(construction_site_id)>>, <<>>, FALSE)
    ELSE Outcome(<<>>, <<Idle>>, FALSE)

MoveToController_MoveWhenNear(controller_id, o) ==
    IF o.resolves
    THEN IF o.near
         THEN Outcome(<<move_to(controller_id)>>,
                      <<Job("UpgradeController", controller_id)>>, FALSE)
         ELSE Outcome(<<move_to(controller_id)>>, <<>>, FALSE)
    ELSE Outcome(<<>>, <<Idle>>, FALSE)

\* lines 176-188
MoveToController(controller_id, o) ==
    IF o.resolves
    THEN IF o.near
         THEN Outcome(<<>>, <<Job("UpgradeController", controller_id)>>, FALSE)
         ELSE Outcome(<<move_to(controller_id)>>, <<>>, FALSE)
    ELSE Outcome(<<>>, <<Idle>>, FALSE)

NoArm_GoHarvest(job, o) == Outcome(<<>>, <<Job("HarvestSource", "s1")>>, FALSE)

\* the jobs the match has no arm for (Idle and the unfinished ones): nothing
\* is done for them
NoArm(job, o) == Outcome(<<>>, <<>>, FALSE)

run_simple_worker_with_job(job, o) ==
    CASE job[1] = "TransferToSpawn" -> TransferToSpawn(job[2], o)
      [] job[1] = "HarvestSource" -> HarvestSource(job[2], o)
      [] job[1] = "MoveToConstructionSite" -> MoveToConstructionSite(job[2], o)
      [] job[1] = "MoveToController" -> MoveToController(job[2], o)
      [] OTHER -> NoArm(job, o)

decode_creep_memory_DefaultHarvest(raw) ==
    unwrap_or(from_value_CreepMemory(raw), SimpleWorker(Job("HarvestSource", "s1")))

\* line 124: the memory run_creep works with
decode_creep_memory(raw) == unwrap_or(from_value_CreepMemory(raw), SimpleWorker(Idle))

\* lines 123-130: the job run_creep hands to run_simple_worker_with_job
run_creep(raw) == decode_creep_memory(raw)[2]

\* creep.set_memory(&to_value(&SimpleJob::...).unwrap()): the raw value a
\* creep's memory holds after the arm's writes
set_memory_job(raw, writes) ==
    IF writes = <<>> THEN raw ELSE to_value_SimpleJob(writes[Len(writes)])

\* spawn.set_memory(&to_value(&StructureMemory::...).unwrap())
set_memory_structure(raw, writes) ==
    IF writes = <<>> THEN raw ELSE to_value_StructureMemory(writes[Len(writes)])

---------------------------------------------------------------------------
(* The state machine *)

\* the values a creep's memory may hold when the model starts: absent, of a
\* foreign shape, or a CreepMemory written by an assigner
InitJobs ==
    {Idle, Job("TransferToSpawn", "p1"), Job("HarvestSource", "s1"),
     Job("MoveToConstructionSite", "k1"), Job("MoveToController", "r1"),
     Job("MoveToSpawn", "p1")}

InitCreepMemories ==
    {Undefined, Obj1("role", Str("harvester"))}
        \cup {to_value_CreepMemory(SimpleWorker(j)) : j \in InitJobs}

\* the values a spawn's memory may hold when the model starts
InitSpawnMemories ==
    {Undefined, Obj1("role", Str("spawner")), to_value_StructureMemory(GenericSpawner(0))}

NoSLog ==
    [ran |-> FALSE, mem0 |-> Undefined, energy |-> 0, branch |-> "none",
     reqs |-> <<>>, rc |-> "none"]

NoCLog ==
    [ran |-> FALSE, mem0 |-> Undefined, job |-> Idle, obs |-> NoObs,
     acts |-> <<>>, writes |-> <<>>, panic |-> FALSE]

\* the state between two ticks, for the creeps and the memories given
InitWith(creeps, creepMemories, spawnMemories) ==
    /\ phase = "idle"
    /\ todoS = {}
    /\ todoC = {}
    /\ spawnMem \in [Spawns -> spawnMemories]
    /\ creepMem \in [creeps -> creepMemories]
    /\ pending = {}
    /\ slog = [s \in Spawns |-> NoSLog]
    /\ clog = [c \in creeps |-> NoCLog]
    /\ bootstraps = [s \in Spawns |-> 0]
    /\ requested = [s \in Spawns |-> <<>>]
    /\ world = [c \in creeps |-> NoObs]

Init == InitWith(InitCreeps, InitCreepMemories, InitSpawnMemories)

\* the creeps that exist or are about to: the names the engine refuses
CreepNames == DOMAIN creepMem \cup {r.name : r \in pending}

\* the host calls loop: the engine has created the creeps it accepted, and
\* game_loop takes game::structures() and game::creeps() (lines 195-198)
StartTick ==
    /\ phase \in {"idle", "done", "aborted"}
    /\ phase' = "structures"
    /\ todoS' = Structures
    /\ creepMem' = [c \in CreepNames |->
                       IF c \in DOMAIN creepMem THEN creepMem[c]
                       ELSE (CHOOSE r \in pending : r.name = c).memory]
    /\ todoC' = CreepNames
    /\ pending' = {}
    /\ slog' = [s \in Spawns |-> NoSLog]
    /\ clog' = [c \in CreepNames |-> NoCLog]
    /\ world' = [c \in CreepNames |-> NoObs]
    /\ UNCHANGED <<spawnMem, bootstraps, requested>>

\* the energy the spawn may hold: the counter is not driven past MaxCounter
SpawnEnergies(s) ==
    LET mem == from_value_StructureMemory(spawnMem[s])
    IN  IF is_ok(mem) /\ mem[2][2] >= MaxCounter
        THEN {e \in Energies : e < SpawnThreshold}
        ELSE Energies

\* the engine's answer to spawn_creep_with_options
ReturnCodes(reqs) ==
    IF reqs = <<>> THEN {"none"}
    ELSE IF reqs[1].name \in CreepNames THEN {"ERR_NAME_EXISTS"}
    ELSE IF Cardinality(CreepNames) >= MaxCreeps THEN {"ERR_BUSY"}
    ELSE {"OK", "ERR_BUSY"}

\* run_structure on a spawn: run_spawn (lines 69, 96-113)
RunSpawn(s) ==
    /\ phase = "structures"
    /\ s \in todoS
    /\ structure_type(s) = "Spawn"
    /\ \E energy \in SpawnEnergies(s) :
         LET out == run_spawn(s, spawnMem[s], energy)
         IN  \E rc \in ReturnCodes(out.reqs) :
               /\ spawnMem' = [spawnMem EXCEPT ![s] = set_memory_structure(@, out.writes)]
               /\ pending' = IF rc = "OK"
                             THEN pending \cup {out.reqs[i] : i \in 1..Len(out.reqs)}
                             ELSE pending
               /\ slog' = [slog EXCEPT ![s] =
                              [ran |-> TRUE, mem0 |-> spawnMem[s], energy |-> energy,
                               branch |-> out.branch, reqs |-> out.reqs, rc |-> rc]]
               /\ bootstraps' = IF out.branch = "bootstrap" /\ bootstraps[s] < 2
                                THEN [bootstraps EXCEPT ![s] = @ + 1]
                                ELSE bootstraps
               /\ requested' = [requested EXCEPT ![s] =
                                    @ \o [i \in 1..Len(out.reqs) |-> out.reqs[i].name]]
    /\ todoS' = todoS \ {s}
    /\ UNCHANGED <<phase, todoC, creepMem, clog, world>>

\* run_structure on a controller: run_controller does nothing (lines 70, 115)
RunController(s) ==
    /\ phase = "structures"
    /\ s \in todoS
    /\ structure_type(s) = "Controller"
    /\ todoS' = todoS \ {s}
    /\ UNCHANGED <<phase, todoC, spawnMem, creepMem, pending, slog, clog, bootstraps,
                   requested, world>>

\* run_structure on an extension: nothing (line 71)
RunExtension(s) ==
    /\ phase = "structures"
    /\ s \in todoS
    /\ structure_type(s) = "Extension"
    /\ todoS' = todoS \ {s}
    /\ UNCHANGED <<phase, todoC, spawnMem, creepMem, pending, slog, clog, bootstraps,
                   requested, world>>

\* run_structure on any other type: a warning (line 72)
RunOtherStructure(s) ==
    /\ phase = "structures"
    /\ s \in todoS
    /\ structure_type(s) \notin {"Spawn", "Controller", "Extension"}
    /\ todoS' = todoS \ {s}
    /\ UNCHANGED <<phase, todoC, spawnMem, creepMem, pending, slog, clog, bootstraps,
                   requested, world>>

\* the answers the world may give to the creeps in C, one for each creep:
\* the world is one frozen snapshot for the whole of run_creeps
RECURSIVE Worlds(_)
Worlds(C) ==
    IF C = {} THEN {[c \in {} |-> NoObs]}
    ELSE LET c == CHOOSE x \in C : TRUE
         IN  {(c :> o) @@ w : o \in Observations(run_creep(creepMem[c])),
                              w \in Worlds(C \ {c})}

RunStructuresDone_Early ==
    /\ phase = "structures"
    /\ phase' = "creeps"
    /\ world' \in Worlds(DOMAIN creepMem)
    /\ UNCHANGED <<todoS, todoC, spawnMem, creepMem, pending, slog, clog, bootstraps,
                   requested>>

\* run_structures returns, run_creeps starts (lines 199-200)
RunStructuresDone ==
    /\ phase = "structures"
    /\ todoS = {}
    /\ phase' = "creeps"
    /\ world' \in Worlds(DOMAIN creepMem)
    /\ UNCHANGED <<todoS, todoC, spawnMem, creepMem, pending, slog, clog, bootstraps,
                   requested>>

\* run_creep on one creep of the snapshot (lines 117-191); a panic ends the
\* tick with the creeps not yet visited left unvisited
RunCreep(c) ==
    /\ phase = "creeps"
    /\ c \in todoC
    /\ LET job == run_creep(creepMem[c])
           o == world[c]
           out == run_simple_worker_with_job(job, o)
       IN  /\ creepMem' = [creepMem EXCEPT ![c] = set_memory_job(@, out.writes)]
           /\ clog' = [clog EXCEPT ![c] =
                          [ran |-> TRUE, mem0 |-> creepMem[c], job |-> job, obs |-> o,
                           acts |-> out.acts, writes |-> out.writes,
                           panic |-> out.panic]]
           /\ phase' = IF out.panic THEN "aborted" ELSE phase
    /\ todoC' = todoC \ {c}
    /\ UNCHANGED <<todoS, spawnMem, pending, slog, bootstraps, requested, world>>

\* run_creeps returns and game_loop ends (lines 200-202)
RunCreepsDone ==
    /\ phase = "creeps"
    /\ todoC = {}
    /\ phase' = "done"
    /\ UNCHANGED <<todoS, todoC, spawnMem, creepMem, pending, slog, clog, bootstraps,
                   requested, world>>

Next ==
    \/ StartTick
    \/ \E s \in Structures : RunSpawn(s)
    \/ \E s \in Structures : RunController(s)
    \/ \E s \in Structures : RunExtension(s)
    \/ \E s \in Structures : RunOtherStructure(s)
    \/ RunStructuresDone
    \/ \E c \in DOMAIN creepMem : RunCreep(c)
    \/ RunCreepsDone

Spec == Init /\ [][Next]_vars

(* The same program started with two creeps that both hold a job *)

OrderCreeps == {"c1", "c2"}

OrderJobs ==
    {Job("TransferToSpawn", "p1"), Job("HarvestSource", "s1"), Job("MoveToController", "r1")}

InitOrder ==
    InitWith(OrderCreeps,
             {to_value_CreepMemory(SimpleWorker(j)) : j \in OrderJobs},
             {to_value_StructureMemory(GenericSpawner(0))})

SpecOrder == InitOrder /\ [][Next]_vars

\* the orders in which creeps.values() may yield the creeps in C
Orders(C) ==
    {order \in [1..Cardinality(C) -> C] :
        \A i, j \in 1..Cardinality(C) : order[i] = order[j] => i = j}

\* run_creeps over the creeps in the given order (lines 117-121), from the
\* memories st.mem and with the world's answers w: the memories and the
\* actions of each creep when game_loop ends; a panic ends the iteration
RECURSIVE run_creeps(_, _, _)
run_creeps(order, w, st) ==
    IF order = <<>> THEN st
    ELSE LET c == Head(order)
             out == run_simple_worker_with_job(run_creep(st.mem[c]), w[c])
             after == [mem |-> [st.mem EXCEPT ![c] = set_memory_job(@, out.writes)],
                       acts |-> [st.acts EXCEPT ![c] = out.acts]]
         IN  IF out.panic THEN after ELSE run_creeps(Tail(order), w, after)

---------------------------------------------------------------------------
(* Properties *)

\* the raw memory did not decode as StructureMemory
Undecodable(raw) == ~is_ok(from_value_StructureMemory(raw))

\* C1: a creep whose job is one of the four handled jobs and whose stored id
\* does not resolve issues no world action, does not abort the tick, and at
\* the end of the tick its memory reads as Idle.
C1_ResolutionFailureFallback ==
    \A c \in DOMAIN clog :
        (clog[c].ran /\ clog[c].job[1] \in HandledTags /\ ~clog[c].obs.resolves)
            => /\ clog[c].acts = <<>>
               /\ ~clog[c].panic
               /\ phase \in {"done", "aborted"} => run_creep(creepMem[c]) = Idle

\* C2: whatever job a creep's tick hands to set_memory is the job run_creep
\* decodes from the creep's memory afterwards; the memory given to a new
\* creep decodes to SimpleWorker(Idle); the memory a spawn's tick writes
\* decodes to the GenericSpawner value written.
C2_PersistenceRoundTrip ==
    /\ \A c \in DOMAIN clog :
         (clog[c].ran /\ clog[c].writes # <<>>)
             => decode_creep_memory(creepMem[c]) = SimpleWorker(clog[c].writes[Len(clog[c].writes)])
    /\ \A r \in pending : from_value_CreepMemory(r.memory) = Ok(SimpleWorker(Idle))
    /\ \A s \in Spawns :
         (slog[s].ran /\ slog[s].branch = "bootstrap")
             => from_value_StructureMemory(spawnMem[s]) = Ok(GenericSpawner(0))

\* C3: when a tick has ended, every structure and every creep of its
\* snapshot has been processed.
C3_ErrorContainment ==
    phase \in {"done", "aborted"} => (todoS = {} /\ todoC = {})

\* C4: in a tick a creep issues at most one world action, and a creep that
\* has been processed is not processed again in that tick.
C4_AtMostOneAction ==
    \A c \in DOMAIN clog :
        /\ Len(clog[c].acts) <= 1
        /\ clog[c].ran => c \notin todoC

C4_Witness ==
    \E c \in DOMAIN clog :
        clog[c].ran /\ clog[c].job[1] = "TransferToSpawn" /\ Len(clog[c].acts) = 1

\* C5: a creep whose memory reads as SimpleWorker(Idle) keeps its memory in
\* every step, and the step that processes it issues no action, writes no
\* memory and does not panic; every creep the engine is asked to create
\* starts with such a memory.
C5_IdempotentIdle ==
    [][/\ \A c \in DOMAIN creepMem :
            run_creep(creepMem[c]) = Idle
                => /\ creepMem'[c] = creepMem[c]
                   /\ (~clog[c].ran /\ clog'[c].ran)
                          => /\ clog'[c].acts = <<>>
                             /\ clog'[c].writes = <<>>
                             /\ ~clog'[c].panic
       /\ \A r \in pending' : from_value_CreepMemory(r.memory) = Ok(SimpleWorker(Idle))
      ]_vars

C5_Witness ==
    \E c \in DOMAIN clog \ InitCreeps :
        clog[c].ran /\ clog[c].job = Idle /\ phase = "done"

\* C6 as stated: after run_spawn, any spawn whose memory did not decode
\* holds GenericSpawner(0).
C6_BootstrapAnyName ==
    \A s \in Spawns :
        (slog[s].ran /\ Undecodable(slog[s].mem0))
            => spawnMem[s] = to_value_StructureMemory(GenericSpawner(0))

\* C6 as amended: after run_spawn, the spawn named "Spawn1" whose memory did
\* not decode holds GenericSpawner(0); a spawn of any other name whose
\* memory did not decode keeps the memory it had.
C6_BootstrapSpawn1 ==
    \A s \in Spawns :
        (slog[s].ran /\ Undecodable(slog[s].mem0))
            => IF s = "Spawn1"
               THEN spawnMem[s] = to_value_StructureMemory(GenericSpawner(0))
               ELSE spawnMem[s] = slog[s].mem0

C6_Witness ==
    /\ slog["Spawn1"].ran /\ Undecodable(slog["Spawn1"].mem0)
    /\ slog["Spawn2"].ran /\ Undecodable(slog["Spawn2"].mem0)
    /\ spawnMem["Spawn1"] = to_value_StructureMemory(GenericSpawner(0))

\* C7: a spawn whose memory decodes to GenericSpawner(n) issues a creation
\* request iff its energy is at least 200; then it issues exactly one, named
\* "<spawnname>.Simple.<n>" with memory SimpleWorker(Idle), and its memory
\* becomes GenericSpawner(n+1); otherwise its memory is unchanged.
C7_SteadyStateSpawning ==
    \A s \in Spawns :
        LET l == slog[s]
            m == from_value_StructureMemory(l.mem0)
        IN  (l.ran /\ is_ok(m))
                => /\ (l.reqs # <<>>) <=> (l.energy >= 200)
                   /\ l.energy >= 200
                        => /\ Len(l.reqs) = 1
                           /\ l.reqs[1].name = s \o ".Simple." \o ToString(m[2][2])
                           /\ from_value_CreepMemory(l.reqs[1].memory)
                                  = Ok(SimpleWorker(Idle))
                           /\ from_value_StructureMemory(spawnMem[s])
                                  = Ok(GenericSpawner(m[2][2] + 1))
                   /\ l.energy < 200 => spawnMem[s] = l.mem0

C7_Witness ==
    \E s \in Spawns :
        /\ slog[s].ran
        /\ slog[s].mem0 = to_value_StructureMemory(GenericSpawner(1))
        /\ slog[s].energy >= 200
        /\ slog[s].reqs # <<>>

\* C8: when the engine rejects the creation request of a tick, the tick is
\* not aborted and the spawn's memory is what it was before run_spawn.
C8_RejectedCreationNoOp ==
    \A s \in Spawns :
        (slog[s].ran /\ slog[s].reqs # <<>> /\ slog[s].rc # "OK")
            => /\ phase # "aborted"
               /\ spawnMem[s] = slog[s].mem0

\* C9: the tick in which "Spawn1" is found with a memory that does not
\* decode sets its memory to GenericSpawner(0) and issues no creation
\* request, whatever its energy.
C9_BootstrapTickSpawnsNothing ==
    LET l == slog["Spawn1"]
    IN  (l.ran /\ Undecodable(l.mem0))
            => /\ spawnMem["Spawn1"] = to_value_StructureMemory(GenericSpawner(0))
               /\ l.reqs = <<>>
               /\ \A r \in pending : r.name # "Spawn1.Simple.0"

C9_Witness ==
    LET l == slog["Spawn1"]
    IN  l.ran /\ Undecodable(l.mem0) /\ l.energy >= 200 /\ l.reqs = <<>> /\ phase = "done"

\* C10: once a spawn's memory decodes to GenericSpawner(n), after every step
\* it decodes to GenericSpawner(m) with m >= n; the bootstrap arm runs at
\* most once for a spawn.
C10_BootstrapAtMostOnce ==
    [][\A s \in Spawns :
          LET m == from_value_StructureMemory(spawnMem[s])
              mNext == from_value_StructureMemory(spawnMem'[s])
          IN  /\ bootstraps'[s] <= 1
              /\ is_ok(m) => (is_ok(mNext) /\ mNext[2][2] >= m[2][2])
      ]_vars

C10_Witness ==
    /\ bootstraps["Spawn1"] = 1
    /\ from_value_StructureMemory(spawnMem["Spawn1"]) = Ok(GenericSpawner(MaxCounter))

\* the raw memory holds job, as a SimpleJob or inside a CreepMemory
PersistedJob(raw, job) ==
    \/ from_value_SimpleJob(raw) = Ok(job)
    \/ from_value_CreepMemory(raw) = Ok(SimpleWorker(job))

\* C11 as stated: a creep in TransferToSpawn whose spawn resolves and is
\* adjacent issues exactly one transfer to that spawn and its persisted job
\* becomes HarvestSource(first source of the room).
C11_PostTransferHarvestSource ==
    \A c \in DOMAIN clog :
        LET l == clog[c]
        IN  (l.ran /\ l.job[1] = "TransferToSpawn" /\ l.obs.resolves /\ l.obs.near
                   /\ l.obs.sources # <<>>)
                => /\ l.acts = <<transfer(l.job[2])>>
                   /\ PersistedJob(creepMem[c], Job("HarvestSource", l.obs.sources[1]))

\* C11 as amended: such a creep issues exactly one transfer to that spawn;
\* if the room has a source the job stored in its memory is
\* MoveToSource(first source of the room), and if the room has no source the
\* tick is aborted after the transfer with the memory as it was.
C11_PostTransferMoveToSource ==
    \A c \in DOMAIN clog :
        LET l == clog[c]
        IN  (l.ran /\ l.job[1] = "TransferToSpawn" /\ l.obs.resolves /\ l.obs.near)
                => /\ l.acts = <<transfer(l.job[2])>>
                   /\ IF l.obs.sources # <<>>
                      THEN /\ ~l.panic
                           /\ PersistedJob(creepMem[c], Job("MoveToSource", l.obs.sources[1]))
                      ELSE /\ l.panic
                           /\ creepMem[c] = l.mem0

C11_Witness ==
    \E c \in DOMAIN clog :
        /\ clog[c].ran /\ clog[c].job = Job("TransferToSpawn", "p1")
        /\ clog[c].obs.sources = <<"s2", "s1">>
        /\ clog[c].acts = <<transfer("p1")>>
        /\ creepMem[c] = to_value_SimpleJob(Job("MoveToSource", "s2"))

\* C12: a creep in HarvestSource that is adjacent to its resolved source and
\* has no free capacity issues no world action and persists exactly one
\* successor: MoveToConstructionSite(first site) if the room has a site,
\* else MoveToSpawn(first spawn) if it has a spawn, else
\* MoveToController(the room's controller).
C12_PostHarvestPriority ==
    \A c \in DOMAIN clog :
        LET l == clog[c]
            o == l.obs
        IN  (l.ran /\ l.job[1] = "HarvestSource" /\ o.resolves /\ o.near /\ o.free = 0)
                => /\ l.acts = <<>>
                   /\ Len(l.writes) = 1
                   /\ IF o.sites # <<>>
                      THEN l.writes[1] = Job("MoveToConstructionSite", o.sites[1])
                      ELSE IF o.spawns # <<>>
                      THEN l.writes[1] = Job("MoveToSpawn", o.spawns[1])
                      ELSE /\ l.writes[1][1] = "MoveToController"
                           /\ o.controller # <<>> => l.writes[1][2] = o.controller[1]

\* C13: a creep in HarvestSource that is adjacent to its resolved source and
\* has free capacity issues exactly one harvest on that source and leaves
\* its memory as it was.
C13_HarvestKeepsState ==
    \A c \in DOMAIN clog :
        LET l == clog[c]
        IN  (l.ran /\ l.job[1] = "HarvestSource" /\ l.obs.resolves /\ l.obs.near
                   /\ l.obs.free > 0)
                => /\ l.acts = <<harvest(l.job[2])>>
                   /\ l.writes = <<>>
                   /\ ~l.panic
                   /\ creepMem[c] = l.mem0

C13_Witness ==
    \E c \in DOMAIN clog :
        /\ clog[c].ran /\ clog[c].job = Job("HarvestSource", "s1")
        /\ clog[c].obs.free > 0
        /\ clog[c].acts = <<harvest("s1")>>
        /\ phase = "done"

\* C14: a creep in MoveToConstructionSite(id) or MoveToController(id) whose
\* target resolves: adjacent, it issues no action and the job stored in its
\* memory is ConstructSite(id), respectively UpgradeController(id); not
\* adjacent, it issues exactly one move_to(id) and leaves its memory as it
\* was.
C14_MoveToTemplate ==
    \A c \in DOMAIN clog :
        LET l == clog[c]
            paired == IF l.job[1] = "MoveToConstructionSite"
                      THEN "ConstructSite" ELSE "UpgradeController"
        IN  (l.ran /\ l.job[1] \in {"MoveToConstructionSite", "MoveToController"}
                   /\ l.obs.resolves)
                => /\ ~l.panic
                   /\ IF l.obs.near
                      THEN /\ l.acts = <<>>
                           /\ l.writes = <<Job(paired, l.job[2])>>
                           /\ PersistedJob(creepMem[c], Job(paired, l.job[2]))
                      ELSE /\ l.acts = <<move_to(l.job[2])>>
                           /\ l.writes = <<>>
                           /\ creepMem[c] = l.mem0

C14_Witness ==
    \E c \in DOMAIN clog :
        /\ clog[c].ran /\ clog[c].job = Job("MoveToController", "r1")
        /\ clog[c].obs.near
        /\ creepMem[c] = to_value_SimpleJob(Job("UpgradeController", "r1"))

\* C15: when a tick has ended, the memory of every creep and the actions
\* issued for every creep are what run_creeps yields for every order of
\* iteration, from the memories the tick started with and the same answers
\* of the world.
C15_OrderIndependence ==
    phase \in {"done", "aborted"}
        => \A order \in Orders(DOMAIN world) :
              LET start == [mem |-> [c \in DOMAIN world |->
                                        IF clog[c].ran THEN clog[c].mem0 ELSE creepMem[c]],
                            acts |-> [c \in DOMAIN world |-> <<>>]]
                  end == run_creeps(order, world, start)
              IN  /\ end.mem = creepMem
                  /\ \A c \in DOMAIN world : end.acts[c] = clog[c].acts

\* C16: a creep whose memory does not decode as CreepMemory is processed as
\* SimpleWorker(Idle) without aborting the tick; a spawn whose memory does
\* not decode as StructureMemory issues no creation request in that tick;
\* a tick is aborted only by a creep whose memory did decode.
C16_DefaultOnMalformed ==
    /\ \A c \in DOMAIN clog :
         (clog[c].ran /\ ~is_ok(from_value_CreepMemory(clog[c].mem0)))
             => /\ clog[c].job = Idle
                /\ ~clog[c].panic
                /\ clog[c].acts = <<>>
    /\ \A s \in Spawns :
         (slog[s].ran /\ Undecodable(slog[s].mem0))
             => slog[s].reqs = <<>>
    /\ phase = "aborted"
           => \E c \in DOMAIN clog :
                 clog[c].panic /\ is_ok(from_value_CreepMemory(clog[c].mem0))

C16_Witness ==
    /\ \E c \in DOMAIN clog :
         clog[c].ran /\ clog[c].mem0 = Obj1("role", Str("harvester")) /\ clog[c].job = Idle
    /\ slog["Spawn2"].ran /\ slog["Spawn2"].mem0 = Obj1("role", Str("spawner"))
    /\ slog["Spawn2"].energy >= 200
    /\ phase = "done"

\* C17: in a tick no creep is processed before every structure has been
\* processed, and nothing a structure does happens after a creep was
\* processed.
C17_StructuresBeforeCreeps ==
    /\ (phase = "creeps" \/ \E c \in DOMAIN clog : clog[c].ran)
           => /\ todoS = {}
              /\ \A s \in Spawns : slog[s].ran
    /\ phase = "structures" => todoC = DOMAIN creepMem

C17_Witness ==
    /\ \E c \in DOMAIN clog : clog[c].ran
    /\ \E s \in Spawns : slog[s].reqs # <<>> /\ slog[s].rc = "OK"

\* C18: processing a creep whose job is one of the four handled jobs issues
\* a world action or hands a job to set_memory.
C18_NoSilentFreeze ==
    \A c \in DOMAIN clog :
        (clog[c].ran /\ clog[c].job[1] \in HandledTags)
            => (clog[c].acts # <<>> \/ clog[c].writes # <<>>)

\* C19: a creep in HarvestSource whose source resolves but is not adjacent
\* issues no world action and persists Idle.
C19_HarvestOutOfRange ==
    \A c \in DOMAIN clog :
        LET l == clog[c]
        IN  (l.ran /\ l.job[1] = "HarvestSource" /\ l.obs.resolves /\ ~l.obs.near)
                => /\ l.acts = <<>>
                   /\ ~l.panic
                   /\ l.writes = <<Idle>>
                   /\ PersistedJob(creepMem[c], Idle)
                   /\ run_creep(creepMem[c]) = Idle

C19_Witness ==
    \E c \in DOMAIN clog :
        /\ clog[c].ran /\ clog[c].job = Job("HarvestSource", "s1")
        /\ clog[c].obs.resolves /\ ~clog[c].obs.near
        /\ creepMem[c] = Str("Idle")

\* C20: the names of the creation requests a spawn has issued are pairwise
\* different, and the counter in its memory is the number of requests it
\* has issued, accepted or not.
C20_UniqueCreepNames ==
    \A s \in Spawns :
        LET names == requested[s]
            m == from_value_StructureMemory(spawnMem[s])
        IN  /\ \A i, j \in 1..Len(names) : names[i] = names[j] => i = j
            /\ IF is_ok(m) THEN m[2][2] = Len(names) ELSE names = <<>>

C20_Witness ==
    \E s \in Spawns :
        /\ Len(requested[s]) = 2
        /\ slog[s].ran /\ slog[s].reqs # <<>> /\ slog[s].rc = "ERR_BUSY"
        /\ pending = {}

====
